---- MODULE Spec2Model ----
(***************************************************************************)
(* Model of k6/analyze_results.py: main() and analyze_k6_results().        *)
(*                                                                         *)
(* Numbers.  Latencies are integers (milliseconds).  A rate r in 0..1 is   *)
(* modelled by the integer r * 10000, so 0.01 is 100 and 0.05 is 500, and  *)
(* the percentage printed with two decimals is the same integer read as    *)
(* hundredths of a percent.  A byte count is an integer.                   *)
(*                                                                         *)
(* JSON values.  A looked-up field is a record [t, v]: t = "absent" when   *)
(* the key is missing, "num" for a JSON number v, "str" for a JSON string  *)
(* whose text is the decimal numeral of v.                                 *)
(***************************************************************************)
EXTENDS Integers, Sequences, FiniteSets, TLC

\* ------------------------------------------------------------------ bounds
\* Largest number of statistics in an http_req_duration.values mapping.
MaxStats == 3

\* --------------------------------------------------------- program constants
GoodLatency == 500
WarnLatency == 1000
GoodRate == 100
WarnRate == 500
P95Elevated == 500
P95High == 1000
RecElevatedRate == 100
RecHighRate == 500
PassRate == 100
PassLatency == 500
KiB == 1024
DefaultNumber == 0
UsageArgc == 2
ExitFailure == 1
ExitSuccess == 0

\* ---------------------------------------------------------------- JSON values
Absent == [t |-> "absent", v |-> 0]
Num(n) == [t |-> "num", v |-> n]
Str(n) == [t |-> "str", v |-> n]

\* dict.get(key, default) on a looked-up field
Get(x, default) == IF x.t = "absent" THEN Num(default) ELSE x

\* float(val): a number stays, a numeric string is parsed to its number
Float(x) == x.v

\* isinstance(x, str)
IsStr(x) == x.t = "str"

\* Python raises TypeError when a str is ordered against, or divided by, a number
Raises(x) == IsStr(x)

\* the values field of a metric entry: absent, a bare number, or a mapping,
\* kept as the sequence of its (stat, val) items in the order of the file
NoValues == [t |-> "absent", v |-> 0, items |-> <<>>]
ScalarValues(n) == [t |-> "num", v |-> n, items |-> <<>>]
DictValues(its) == [t |-> "dict", v |-> 0, items |-> its]

\* samples[name].get('values', {})
GetValues(entry) == IF entry.values.t = "absent" THEN DictValues(<<>>) ELSE entry.values

\* isinstance(values, dict)
IsDict(values) == values.t = "dict"

\* values.get(stat, default) on a mapping
RECURSIVE Lookup(_, _, _)
Lookup(its, stat, default) ==
    IF its = <<>> THEN Num(default)
    ELSE IF Head(its).stat = stat THEN Head(its).val
    ELSE Lookup(Tail(its), stat, default)

HasStat(its, stat) == \E i \in 1..Len(its) : its[i].stat = stat

\* a metric entry (a mapping) and the absence of the metric
NoEntry == [present |-> FALSE, value |-> Absent, rate |-> Absent, values |-> NoValues]
Entry(value, rate, values) == [present |-> TRUE, value |-> value, rate |-> rate, values |-> values]

NoSamples ==
    [http_req_duration |-> NoEntry, http_requests |-> NoEntry, http_req_failed |-> NoEntry,
     vus |-> NoEntry, vus_max |-> NoEntry, data_received |-> NoEntry, data_sent |-> NoEntry]

NoMeta == [present |-> FALSE, env |-> "absent", testType |-> FALSE]

NoData == [kind |-> "none", metadata |-> NoMeta, hasMetrics |-> FALSE, metrics |-> NoSamples]
ListData == [kind |-> "list", metadata |-> NoMeta, hasMetrics |-> FALSE, metrics |-> NoSamples]
DictData(meta, hasMetrics, samples) ==
    [kind |-> "dict", metadata |-> meta, hasMetrics |-> hasMetrics, metrics |-> samples]

\* ------------------------------------------------------------- input records
StatLabels == {"p(95)", "avg", "max", "med"}
P95Vals == {Num(450), Num(500), Num(750), Num(1000), Num(1500), Str(450), Str(1500)}
OtherVals == {Num(200), Str(1200)}
StatVals(label) == IF label = "p(95)" THEN P95Vals ELSE OtherVals

ItemSet == UNION {{[stat |-> l, val |-> v] : v \in StatVals(l)} : l \in StatLabels}

\* JSON objects have distinct keys
Mappings ==
    UNION {{s \in [1..k -> ItemSet] : \A i, j \in 1..k : i # j => s[i].stat # s[j].stat}
           : k \in 0..MaxStats}

DurationEntries ==
    {NoEntry, Entry(Absent, Absent, NoValues), Entry(Absent, Absent, ScalarValues(320))}
    \cup {Entry(Absent, Absent, DictValues(m)) : m \in Mappings}

RateVals == {Absent, Num(0), Num(20), Num(100), Num(300), Num(500), Num(600), Str(20)}
FailedEntries ==
    {NoEntry} \cup {Entry(v, r, NoValues) : v \in {Absent, Num(3)}, r \in RateVals}

CountEntries == {NoEntry, Entry(Absent, Absent, NoValues), Entry(Num(5), Absent, NoValues)}
ByteEntries ==
    {NoEntry, Entry(Absent, Absent, NoValues), Entry(Num(1048576), Absent, NoValues),
     Entry(Str(1048576), Absent, NoValues)}
Metas == {NoMeta, [present |-> TRUE, env |-> "absent", testType |-> FALSE],
          [present |-> TRUE, env |-> "url", testType |-> TRUE]}

\* every duration and error-rate entry, the other metrics absent
CoreRecords ==
    {DictData(NoMeta, TRUE, [NoSamples EXCEPT !.http_req_duration = d, !.http_req_failed = f])
     : d \in DurationEntries, f \in FailedEntries}

AuxDurations ==
    {NoEntry, Entry(Absent, Absent, DictValues(<<[stat |-> "p(95)", val |-> Num(450)]>>))}
AuxFailed == {NoEntry, Entry(Num(3), Num(20), NoValues)}

\* every combination of the other metrics and of the metadata
AuxRecords ==
    {DictData(meta, TRUE,
        [http_req_duration |-> d, http_requests |-> rq, http_req_failed |-> f,
         vus |-> vu, vus_max |-> vm, data_received |-> dr, data_sent |-> ds])
     : meta \in Metas, d \in AuxDurations, f \in AuxFailed, rq \in CountEntries,
       vu \in CountEntries, vm \in CountEntries, dr \in ByteEntries, ds \in ByteEntries}

\* records without the metrics key, and a file whose top level is not a mapping
BareRecords == {DictData(meta, FALSE, NoSamples) : meta \in Metas} \cup {ListData}

Records == CoreRecords \cup AuxRecords \cup BareRecords

\* ------------------------------------------------------------ printed lines
Line(sec, key, num, txt) == [sec |-> sec, key |-> key, num |-> num, txt |-> txt]

\* result of a section: the lines it printed and whether it raised
Printed(lines) == [out |-> lines, err |-> FALSE]
Raised(lines) == [out |-> lines, err |-> TRUE]

\* samples = data.get('metrics', {})
Samples(d) == IF d.hasMetrics THEN d.metrics ELSE NoSamples

\* header banner and the metadata lines
HeaderSection(d) ==
    <<Line("header", "banner", 0, "")>>
    \o (IF d.metadata.present
        THEN <<Line("metadata", "Environment", 0,
                    IF d.metadata.env = "url" THEN "url" ELSE "Unknown"),
               Line("metadata", "Test Type", 0,
                    IF d.metadata.testType THEN "type" ELSE "Unknown")>>
        ELSE <<>>)

\* names of the metrics that carry a 'values' key
CollectMetrics(d) ==
    IF d.hasMetrics
    THEN {n \in {"http_req_duration"} : d.metrics.http_req_duration.present
                                         /\ d.metrics.http_req_duration.values.t # "absent"}
    ELSE {}

RecognizedStats == {"p(95)", "p(99)", "avg", "min", "max"}

DurationGlyph(val) ==
    IF Float(val) < GoodLatency THEN "good"
    ELSE IF Float(val) < WarnLatency THEN "warning" ELSE "critical"

StatLinesUnfiltered(items) ==
    [i \in 1..Len(items) |->
        Line("stat", items[i].stat, Float(items[i].val), DurationGlyph(items[i].val))]

\* one line per recognized statistic, walking values.items()
StatLines(items) ==
    LET sel == SelectSeq(items, LAMBDA it : it.stat \in RecognizedStats)
    IN  [i \in 1..Len(sel) |->
            Line("stat", sel[i].stat, Float(sel[i].val), DurationGlyph(sel[i].val))]

DurationSection(samples) ==
    IF ~samples.http_req_duration.present THEN <<>>
    ELSE LET values == GetValues(samples.http_req_duration)
         IN  <<Line("duration", "heading", 0, "")>>
             \o (IF IsDict(values) THEN StatLines(values.items)
                 ELSE IF values.t = "num" THEN <<Line("duration", "Value", values.v, "ms")>>
                 ELSE <<>>)

RequestsSection(samples) ==
    IF ~samples.http_requests.present THEN <<>>
    ELSE <<Line("requests", "heading", 0, ""),
           Line("requests", "Total", Get(samples.http_requests.value, DefaultNumber).v, "")>>

RateGlyphLax(r) ==
    IF r <= GoodRate THEN "good" ELSE IF r <= WarnRate THEN "warning" ELSE "critical"

RateGlyph(r) ==
    IF r < GoodRate THEN "good" ELSE IF r < WarnRate THEN "warning" ELSE "critical"

ErrorRateSection(samples) ==
    IF ~samples.http_req_failed.present THEN Printed(<<>>)
    ELSE LET failed == Get(samples.http_req_failed.value, DefaultNumber)
             error_rate == Get(samples.http_req_failed.rate, DefaultNumber)
         IN  IF Raises(error_rate) THEN Raised(<<>>)
             ELSE Printed(<<Line("errrate", "heading", 0, ""),
                            Line("errrate", "Rate", error_rate.v, RateGlyph(error_rate.v)),
                            Line("errrate", "Failed", failed.v, "")>>)

VirtualUsersSectionChained(samples) ==
    <<Line("vus", "heading", 0, "")>>
    \o (IF samples.vus.present
        THEN <<Line("vus", "Current", Get(samples.vus.value, DefaultNumber).v, "")>>
             \o (IF samples.vus_max.present
                 THEN <<Line("vus", "Max", Get(samples.vus_max.value, DefaultNumber).v, "")>>
                 ELSE <<>>)
        ELSE <<>>)

VirtualUsersSection(samples) ==
    <<Line("vus", "heading", 0, "")>>
    \o (IF samples.vus.present
        THEN <<Line("vus", "Current", Get(samples.vus.value, DefaultNumber).v, "")>>
        ELSE <<>>)
    \o (IF samples.vus_max.present
        THEN <<Line("vus", "Max", Get(samples.vus_max.value, DefaultNumber).v, "")>>
        ELSE <<>>)

\* n/1024/1024 printed with two decimals, as hundredths of a MB (nearest)
CentiMB(n) == (n * 100 + (KiB * KiB) \div 2) \div (KiB * KiB)

DataTransferSection(samples) ==
    LET head == <<Line("data", "heading", 0, "")>>
        received == Get(samples.data_received.value, DefaultNumber)
        sent == Get(samples.data_sent.value, DefaultNumber)
        afterReceived ==
            IF ~samples.data_received.present THEN Printed(head)
            ELSE IF Raises(received) THEN Raised(head)
            ELSE Printed(head \o <<Line("data", "Received", CentiMB(received.v), "MB")>>)
    IN  IF afterReceived.err \/ ~samples.data_sent.present THEN afterReceived
        ELSE IF Raises(sent) THEN Raised(afterReceived.out)
        ELSE Printed(afterReceived.out \o <<Line("data", "Sent", CentiMB(sent.v), "MB")>>)

\* ----------------------------------------------------------- recommendations
\* result of a check: the messages it appends and whether it raised
Msgs(m) == [msgs |-> m, err |-> FALSE]
CheckRaised == [msgs |-> <<>>, err |-> TRUE]

\* p95 = values.get('p(95)', 0); a str is replaced by float(p95)
P95(values) ==
    LET p95 == Lookup(values.items, "p(95)", DefaultNumber)
    IN  IF IsStr(p95) THEN Float(p95) ELSE p95.v

ErrorRateMessageBoth(r) ==
    (IF r > RecHighRate THEN <<"HighError">> ELSE <<>>)
    \o (IF r > RecElevatedRate THEN <<"ElevatedError">> ELSE <<>>)

ErrorRateMessage(r) ==
    IF r > RecHighRate THEN <<"HighError">>
    ELSE IF r > RecElevatedRate THEN <<"ElevatedError">>
    ELSE <<>>

ErrorRateCheck(samples) ==
    IF ~samples.http_req_failed.present THEN Msgs(<<>>)
    ELSE LET error_rate == Get(samples.http_req_failed.rate, DefaultNumber)
         IN  IF Raises(error_rate) THEN CheckRaised
             ELSE Msgs(ErrorRateMessage(error_rate.v))

LatencyMessageInclusive(p95) ==
    IF p95 >= P95High THEN <<"LatencyWarning">>
    ELSE IF p95 >= P95Elevated THEN <<"LatencyElevated">>
    ELSE <<"LatencyExcellent">>

LatencyMessage(p95) ==
    IF p95 > P95High THEN <<"LatencyWarning">>
    ELSE IF p95 > P95Elevated THEN <<"LatencyElevated">>
    ELSE <<"LatencyExcellent">>

LatencyCheckAnyValues(samples) ==
    IF ~samples.http_req_duration.present THEN <<>>
    ELSE LET values == GetValues(samples.http_req_duration)
         IN  LatencyMessage(P95(values))

LatencyCheck(samples) ==
    IF ~samples.http_req_duration.present THEN <<>>
    ELSE LET values == GetValues(samples.http_req_duration)
         IN  IF IsDict(values) THEN LatencyMessage(P95(values)) ELSE <<>>

HealthCheckLatencyOnly(samples) ==
    IF ~samples.http_req_failed.present THEN Msgs(<<>>)
    ELSE LET error_rate == Get(samples.http_req_failed.rate, DefaultNumber)
         IN  IF Raises(error_rate) THEN CheckRaised
             ELSE IF samples.http_req_duration.present
             THEN LET values == GetValues(samples.http_req_duration)
                  IN  IF IsDict(values) /\ P95(values) < PassLatency
                      THEN Msgs(<<"Passed">>) ELSE Msgs(<<>>)
             ELSE Msgs(<<>>)

HealthCheck(samples) ==
    IF ~samples.http_req_failed.present THEN Msgs(<<>>)
    ELSE LET error_rate == Get(samples.http_req_failed.rate, DefaultNumber)
         IN  IF Raises(error_rate) THEN CheckRaised
             ELSE IF error_rate.v < PassRate /\ samples.http_req_duration.present
             THEN LET values == GetValues(samples.http_req_duration)
                  IN  IF IsDict(values) /\ P95(values) < PassLatency
                      THEN Msgs(<<"Passed">>) ELSE Msgs(<<>>)
             ELSE Msgs(<<>>)

FallbackAlways(recs) == recs \o <<"Completed">>

\* if not recommendations: recommendations.append(...)
Fallback(recs) == IF recs = <<>> THEN <<"Completed">> ELSE recs

RecLines(recs) == [i \in 1..Len(recs) |-> Line("rec", recs[i], 0, "")]

\* ---------------------------------------------------------------------- state
VARIABLES
    pc,               \* position in main() / analyze_k6_results()
    argc,             \* len(sys.argv)
    exists,           \* Path(json_file).exists()
    readable,         \* open() and json.load() succeed
    data,             \* the parsed record
    metrics,          \* the local defaultdict: names of metrics with 'values'
    out,              \* lines written to standard output
    recommendations,  \* the local list of recommendation messages
    raised,           \* uncaught exception, "none" if there is none
    exitStatus        \* process exit status, -1 while the process runs

vars == <<pc, argc, exists, readable, data, metrics, out, recommendations, raised, exitStatus>>

Init ==
    /\ pc = "main"
    /\ argc \in {1, 2}
    /\ exists \in BOOLEAN
    /\ readable \in BOOLEAN
    /\ data = NoData
    /\ metrics = {}
    /\ out = <<>>
    /\ recommendations = <<>>
    /\ raised = "none"
    /\ exitStatus = -1

inputs == <<argc, exists, readable>>

\* an uncaught exception leaves the section
Raise(exc, lines) ==
    /\ pc' = "raised"
    /\ raised' = exc
    /\ out' = out \o lines

\* ------------------------------------------------------------------- main()
MainUsage ==
    /\ pc = "main"
    /\ argc < UsageArgc
    /\ out' = out \o <<Line("usage", "usage", 0, "")>>
    /\ exitStatus' = ExitFailure
    /\ pc' = "exited"
    /\ UNCHANGED <<inputs, data, metrics, recommendations, raised>>

MainNotFound ==
    /\ pc = "main"
    /\ ~(argc < UsageArgc)
    /\ ~exists
    /\ out' = out \o <<Line("error", "File not found", 0, "")>>
    /\ exitStatus' = ExitFailure
    /\ pc' = "exited"
    /\ UNCHANGED <<inputs, data, metrics, recommendations, raised>>

MainCall ==
    /\ pc = "main"
    /\ ~(argc < UsageArgc)
    /\ exists
    /\ pc' = "load"
    /\ UNCHANGED <<inputs, data, metrics, out, recommendations, raised, exitStatus>>

\* control falls off the end of main(): the interpreter exits normally
MainReturn ==
    /\ pc = "returned"
    /\ exitStatus' = ExitSuccess
    /\ pc' = "exited"
    /\ UNCHANGED <<inputs, data, metrics, out, recommendations, raised>>

\* an exception nobody catches ends the interpreter with status 1
Uncaught ==
    /\ pc = "raised"
    /\ exitStatus' = ExitFailure
    /\ pc' = "exited"
    /\ UNCHANGED <<inputs, data, metrics, out, recommendations, raised>>

\* ------------------------------------------------------ analyze_k6_results()
LoadFail ==
    /\ pc = "load"
    /\ ~readable
    /\ out' = out \o <<Line("error", "Error reading file", 0, "cause")>>
    /\ pc' = "returned"
    /\ UNCHANGED <<inputs, data, metrics, recommendations, raised, exitStatus>>

LoadOk ==
    /\ pc = "load"
    /\ readable
    /\ \E d \in Records : data' = d
    /\ pc' = "header"
    /\ UNCHANGED <<inputs, metrics, out, recommendations, raised, exitStatus>>

Header ==
    /\ pc = "header"
    /\ IF data.kind # "dict"
       THEN /\ Raise("AttributeError", <<>>)
            /\ UNCHANGED metrics
       ELSE /\ out' = out \o HeaderSection(data) \o <<Line("kpi", "heading", 0, "")>>
            /\ metrics' = CollectMetrics(data)
            /\ pc' = "duration"
            /\ UNCHANGED raised
    /\ UNCHANGED <<inputs, data, recommendations, exitStatus>>

Duration ==
    /\ pc = "duration"
    /\ out' = out \o DurationSection(Samples(data))
    /\ pc' = "requests"
    /\ UNCHANGED <<inputs, data, metrics, recommendations, raised, exitStatus>>

Requests ==
    /\ pc = "requests"
    /\ out' = out \o RequestsSection(Samples(data))
    /\ pc' = "failed"
    /\ UNCHANGED <<inputs, data, metrics, recommendations, raised, exitStatus>>

ErrorRate ==
    /\ pc = "failed"
    /\ LET r == ErrorRateSection(Samples(data))
       IN  IF r.err THEN Raise("TypeError", r.out)
           ELSE /\ out' = out \o r.out
                /\ pc' = "vus"
                /\ UNCHANGED raised
    /\ UNCHANGED <<inputs, data, metrics, recommendations, exitStatus>>

VirtualUsers ==
    /\ pc = "vus"
    /\ out' = out \o VirtualUsersSection(Samples(data))
    /\ pc' = "data"
    /\ UNCHANGED <<inputs, data, metrics, recommendations, raised, exitStatus>>

DataTransfer ==
    /\ pc = "data"
    /\ LET r == DataTransferSection(Samples(data))
       IN  IF r.err THEN Raise("TypeError", r.out)
           ELSE /\ out' = out \o r.out
                /\ pc' = "rec_error"
                /\ UNCHANGED raised
    /\ UNCHANGED <<inputs, data, metrics, recommendations, exitStatus>>

RecErrorRate ==
    /\ pc = "rec_error"
    /\ LET r == ErrorRateCheck(Samples(data))
           head == <<Line("rec", "heading", 0, "")>>
       IN  IF r.err
           THEN /\ Raise("TypeError", head)
                /\ UNCHANGED recommendations
           ELSE /\ out' = out \o head
                /\ recommendations' = r.msgs
                /\ pc' = "rec_latency"
                /\ UNCHANGED raised
    /\ UNCHANGED <<inputs, data, metrics, exitStatus>>

RecLatency ==
    /\ pc = "rec_latency"
    /\ recommendations' = recommendations \o LatencyCheck(Samples(data))
    /\ pc' = "rec_health"
    /\ UNCHANGED <<inputs, data, metrics, out, raised, exitStatus>>

RecHealth ==
    /\ pc = "rec_health"
    /\ LET r == HealthCheck(Samples(data))
       IN  IF r.err
           THEN /\ Raise("TypeError", <<>>)
                /\ UNCHANGED recommendations
           ELSE /\ recommendations' = recommendations \o r.msgs
                /\ pc' = "rec_print"
                /\ UNCHANGED <<out, raised>>
    /\ UNCHANGED <<inputs, data, metrics, exitStatus>>

\* fallback, the printed list and the closing banner
RecPrint ==
    /\ pc = "rec_print"
    /\ recommendations' = Fallback(recommendations)
    /\ out' = out \o RecLines(recommendations') \o <<Line("closing", "banner", 0, "")>>
    /\ pc' = "returned"
    /\ UNCHANGED <<inputs, data, metrics, raised, exitStatus>>

Next ==
    \/ MainUsage \/ MainNotFound \/ MainCall \/ MainReturn \/ Uncaught
    \/ LoadFail \/ LoadOk \/ Header \/ Duration \/ Requests \/ ErrorRate
    \/ VirtualUsers \/ DataTransfer \/ RecErrorRate \/ RecLatency \/ RecHealth
    \/ RecPrint

Spec == Init /\ [][Next]_vars

\* ================================================================ properties
Has(sec, key) == \E i \in 1..Len(out) : out[i].sec = sec /\ out[i].key = key

LinesOf(sec, key) == {i \in 1..Len(out) : out[i].sec = sec /\ out[i].key = key}

\* the record was parsed and is a mapping
Parsed == data.kind = "dict"

\* the closing banner was printed
Completed == Has("closing", "banner")

DurationDone == Parsed /\ pc \notin {"header", "duration"}
ErrorRateDone == DurationDone /\ pc \notin {"requests", "failed"}
VirtualUsersDone == ErrorRateDone /\ pc # "vus" /\ Has("vus", "heading")
LatencyChecked == pc \in {"rec_health", "rec_print"} \/ Completed
HealthChecked == pc = "rec_print" \/ Completed

duration == Samples(data).http_req_duration
failed == Samples(data).http_req_failed
InputStats == duration.values.items

\* the rate of the input, 0 when the key is absent
InputRate == Get(failed.rate, 0).v

\* the p(95) of the input read as a number, 0 when the mapping has no such entry
InputP95 == Lookup(InputStats, "p(95)", 0).v

LatencyMessages == {"LatencyWarning", "LatencyElevated", "LatencyExcellent"}
LatencyCount ==
    Cardinality({i \in 1..Len(recommendations) : recommendations[i] \in LatencyMessages})

Appended(msg) == \E i \in 1..Len(recommendations) : recommendations[i] = msg

OnlyLatency(msg) == Appended(msg) /\ LatencyCount = 1

StatKeys ==
    LET s == SelectSeq(out, LAMBDA l : l.sec = "stat")
    IN  [i \in 1..Len(s) |-> s[i].key]

PrintedRecs ==
    LET s == SelectSeq(out, LAMBDA l : l.sec = "rec" /\ l.key # "heading")
    IN  [i \in 1..Len(s) |-> s[i].key]

\* ---------------------------------------------------------------------- C1
\* C1 (as claimed): a parsed record never makes the run raise on account of a
\* numeric string held where a number is expected; the run reaches the
\* closing banner.
C1_StringsNeverRaise ==
    Parsed => /\ raised = "none"
              /\ (pc = "exited" => Completed)

\* ---------------------------------------------------------------------- C2
\* C2 (as claimed): when the file exists but cannot be opened or decoded, only
\* the cause is printed, no report section, and the exit status is non-zero.
C2_UnreadableExitsNonZero ==
    (pc = "exited" /\ argc >= 2 /\ exists /\ ~readable)
        => /\ out = <<Line("error", "Error reading file", 0, "cause")>>
           /\ exitStatus # 0

\* ---------------------------------------------------------------------- C3
\* C3 (as claimed): once the latency check has run, the list holds exactly one
\* latency message if http_req_duration.values is a mapping with a p(95)
\* entry, and no latency message otherwise.
C3_OnlyWithP95Entry ==
    LatencyChecked =>
        IF duration.present /\ duration.values.t = "dict" /\ HasStat(InputStats, "p(95)")
        THEN LatencyCount = 1
        ELSE LatencyCount = 0

\* C3 (amended): once the latency check has run, the list holds exactly one
\* latency message if http_req_duration is present and its values field is a
\* mapping or absent, and no latency message when http_req_duration is absent
\* or its values field is a scalar.
C3_MappingOrAbsentValues ==
    LatencyChecked =>
        IF duration.present /\ duration.values.t \in {"dict", "absent"}
        THEN LatencyCount = 1
        ELSE LatencyCount = 0

C3_Witness ==
    /\ LatencyChecked
    /\ duration.present
    /\ duration.values.t = "dict"
    /\ ~HasStat(InputStats, "p(95)")
    /\ InputStats # <<>>
    /\ OnlyLatency("LatencyExcellent")

\* ---------------------------------------------------------------------- C4
\* C4 (as claimed): for a p(95) entry v of the mapping the latency message is
\* the warning when v > 1000, acceptable-but-elevated when 500 <= v <= 1000,
\* and excellent when v < 500.
C4_TiersInclusive500 ==
    (LatencyChecked /\ duration.present /\ duration.values.t = "dict"
        /\ HasStat(InputStats, "p(95)"))
    => /\ InputP95 > 1000 => OnlyLatency("LatencyWarning")
       /\ (500 <= InputP95 /\ InputP95 <= 1000) => OnlyLatency("LatencyElevated")
       /\ InputP95 < 500 => OnlyLatency("LatencyExcellent")

\* C4 (amended): for a p(95) entry v of the mapping the latency message is the
\* warning when v > 1000, acceptable-but-elevated when 500 < v <= 1000, and
\* excellent when v <= 500.
C4_TiersExclusive500 ==
    (LatencyChecked /\ duration.present /\ duration.values.t = "dict"
        /\ HasStat(InputStats, "p(95)"))
    => /\ InputP95 > 1000 => OnlyLatency("LatencyWarning")
       /\ (500 < InputP95 /\ InputP95 <= 1000) => OnlyLatency("LatencyElevated")
       /\ InputP95 <= 500 => OnlyLatency("LatencyExcellent")

C4_Witness ==
    /\ LatencyChecked
    /\ HasStat(InputStats, "p(95)")
    /\ Lookup(InputStats, "p(95)", 0) = Str(1500)
    /\ OnlyLatency("LatencyWarning")

\* ---------------------------------------------------------------------- C5
PassedAfterExcellent ==
    \A j \in 1..Len(recommendations) :
        recommendations[j] = "Passed"
            => \E i \in 1..(j - 1) : recommendations[i] = "LatencyExcellent"

\* C5 (as claimed): once the overall check has run, "load test passed" is in
\* the list exactly when the error rate is < 0.01 and the values field is a
\* mapping holding a p(95) below 500; then "latency is excellent" precedes it.
C5_PassedNeedsMapping ==
    HealthChecked =>
        /\ Appended("Passed") <=>
              (/\ failed.present /\ ~IsStr(failed.rate) /\ InputRate < 100
               /\ duration.present /\ duration.values.t = "dict"
               /\ HasStat(InputStats, "p(95)") /\ InputP95 < 500)
        /\ PassedAfterExcellent

\* C5 (amended): once the overall check has run, "load test passed" is in the
\* list exactly when http_req_failed is present with a rate (0 when absent)
\* below 0.01 and http_req_duration is present with a values field that is a
\* mapping or absent and whose p(95) (0 when absent) is below 500; then
\* "latency is excellent" precedes it.
C5_PassedWithDefaults ==
    HealthChecked =>
        /\ Appended("Passed") <=>
              (/\ failed.present /\ ~IsStr(failed.rate) /\ InputRate < 100
               /\ duration.present /\ duration.values.t \in {"dict", "absent"}
               /\ InputP95 < 500)
        /\ PassedAfterExcellent

C5_Witness ==
    /\ HealthChecked
    /\ failed.present /\ failed.rate = Num(20)
    /\ Lookup(InputStats, "p(95)", 0) = Num(450)
    /\ recommendations = <<"LatencyExcellent", "Passed">>

\* ---------------------------------------------------------------------- C6
CheckRank(msg) ==
    CASE msg \in {"HighError", "ElevatedError"} -> 1
      [] msg \in LatencyMessages -> 2
      [] msg = "Passed" -> 3
      [] OTHER -> 4

\* C6: the printed recommendation list is never empty, follows the order
\* error-rate message, latency message, overall-pass message with at most one
\* message of each check, carries the high warning alone for a rate > 0.05 and
\* the elevated one alone for 0.01 < rate <= 0.05, and holds the generic
\* message exactly when it holds nothing else, as when metrics is missing.
C6_RecommendationList ==
    Completed =>
        LET recs == PrintedRecs
            has(m) == \E i \in 1..Len(recs) : recs[i] = m
        IN  /\ recs # <<>>
            /\ recs = recommendations
            /\ \A i, j \in 1..Len(recs) : i < j => CheckRank(recs[i]) < CheckRank(recs[j])
            /\ ~(has("HighError") /\ has("ElevatedError"))
            /\ has("HighError") <=> (failed.present /\ InputRate > 500)
            /\ has("ElevatedError") <=> (failed.present /\ 100 < InputRate /\ InputRate <= 500)
            /\ has("Completed") <=> (\A i \in 1..Len(recs) : CheckRank(recs[i]) = 4)
            /\ has("Completed") => Len(recs) = 1
            /\ ~data.hasMetrics => recs = <<"Completed">>

C6_Witness ==
    /\ Completed
    /\ PrintedRecs = <<"HighError", "LatencyWarning">>

\* ---------------------------------------------------------------------- C7
FixedRank(stat) ==
    CASE stat = "p(95)" -> 1
      [] stat = "p(99)" -> 2
      [] stat = "avg" -> 3
      [] stat = "min" -> 4
      [] stat = "max" -> 5
      [] OTHER -> 6

InputPos(stat) == CHOOSE i \in 1..Len(InputStats) : InputStats[i].stat = stat

StatLinesRecognized ==
    /\ \A i \in 1..Len(StatKeys) :
          /\ StatKeys[i] \in {"p(95)", "p(99)", "avg", "min", "max"}
          /\ HasStat(InputStats, StatKeys[i])
    /\ \A l \in {"p(95)", "p(99)", "avg", "min", "max"} :
          HasStat(InputStats, l) => \E i \in 1..Len(StatKeys) : StatKeys[i] = l

\* C7 (as claimed): the duration section prints a line for each recognized
\* statistic of the mapping and for no other label, in the fixed order p(95),
\* p(99), avg, min, max whatever the order of the keys in the input.
C7_FixedOrder ==
    DurationDone =>
        /\ StatLinesRecognized
        /\ \A i, j \in 1..Len(StatKeys) :
              i < j => FixedRank(StatKeys[i]) < FixedRank(StatKeys[j])

\* C7 (amended): the duration section prints a line for each recognized
\* statistic of the mapping and for no other label, in the order in which the
\* keys appear in the input mapping.
C7_InputOrder ==
    DurationDone =>
        /\ StatLinesRecognized
        /\ \A i, j \in 1..Len(StatKeys) :
              i < j => InputPos(StatKeys[i]) < InputPos(StatKeys[j])

C7_Witness ==
    /\ DurationDone
    /\ Len(InputStats) = 3
    /\ InputStats[1].stat = "max" /\ InputStats[2].stat = "med" /\ InputStats[3].stat = "p(95)"
    /\ StatKeys = <<"max", "p(95)">>

\* ---------------------------------------------------------------------- C8
\* no consumed field holds a string where the code computes with a number
NumbersOnly ==
    /\ ~IsStr(failed.rate)
    /\ ~IsStr(Samples(data).data_received.value)
    /\ ~IsStr(Samples(data).data_sent.value)

LineNum(sec, key) == out[CHOOSE i \in 1..Len(out) : out[i].sec = sec /\ out[i].key = key].num

DefaultsTo0(field, sec, key) ==
    (field.t = "absent" /\ Has(sec, key)) => LineNum(sec, key) = 0

\* C8: for a parsed mapping whose present fields are numbers, no combination
\* of absent keys makes the run raise: header and closing banner are printed,
\* an absent value or rate is printed as 0, and the line of vus and the line
\* of vus_max each appear exactly when their own metric is present.
C8_AbsentKeysDegrade ==
    (Parsed /\ NumbersOnly) =>
        /\ raised = "none"
        /\ pc \notin {"header"} => Has("header", "banner")
        /\ pc = "exited" => (Completed /\ exitStatus = 0)
        /\ DefaultsTo0(Samples(data).http_requests.value, "requests", "Total")
        /\ DefaultsTo0(failed.rate, "errrate", "Rate")
        /\ DefaultsTo0(failed.value, "errrate", "Failed")
        /\ DefaultsTo0(Samples(data).vus.value, "vus", "Current")
        /\ DefaultsTo0(Samples(data).vus_max.value, "vus", "Max")
        /\ DefaultsTo0(Samples(data).data_received.value, "data", "Received")
        /\ DefaultsTo0(Samples(data).data_sent.value, "data", "Sent")
        /\ VirtualUsersDone =>
              /\ Has("vus", "Current") <=> Samples(data).vus.present
              /\ Has("vus", "Max") <=> Samples(data).vus_max.present
        /\ ErrorRateDone => (Has("errrate", "Rate") <=> failed.present)

C8_Witness ==
    /\ pc = "exited"
    /\ Completed
    /\ ~Samples(data).vus.present
    /\ Samples(data).vus_max.present
    /\ Samples(data).vus_max.value = Absent
    /\ Has("vus", "Max")
    /\ LineNum("vus", "Max") = 0
    /\ ~Has("vus", "Current")

\* ---------------------------------------------------------------------- C9
ClaimedGlyph(r) ==
    CASE r < 100 -> "good"
      [] 100 <= r /\ r < 500 -> "warning"
      [] r >= 500 -> "critical"

\* C9: the error-rate line carries exactly one glyph, chosen from the rate r
\* of the input (0 when absent): good iff r < 0.01, warning iff
\* 0.01 <= r < 0.05, critical iff r >= 0.05.
C9_RateGlyph ==
    /\ Cardinality(LinesOf("errrate", "Rate")) <= 1
    /\ \A i \in LinesOf("errrate", "Rate") :
          /\ out[i].num = InputRate
          /\ out[i].txt = ClaimedGlyph(InputRate)
    /\ (ErrorRateDone /\ failed.present /\ ~IsStr(failed.rate))
          => LinesOf("errrate", "Rate") # {}

C9_Witness ==
    /\ failed.present
    /\ failed.rate = Num(500)
    /\ \E i \in LinesOf("errrate", "Rate") : out[i].txt = "critical"

\* --------------------------------------------------------------------- C10
ReportPrinted == \E i \in 1..Len(out) : out[i].sec \notin {"usage", "error"}

\* C10 (as claimed): zero arguments or a missing path end with exit status 1
\* after the usage text or the file-not-found message and never enter the
\* analysis; report sections are printed only for a readable, parseable file,
\* and that path ends with exit status 0.
C10_ExitStatus ==
    /\ (pc = "exited" /\ argc < 2)
          => (exitStatus = 1 /\ out = <<Line("usage", "usage", 0, "")>>)
    /\ (pc = "exited" /\ argc >= 2 /\ ~exists)
          => (exitStatus = 1 /\ out = <<Line("error", "File not found", 0, "")>>)
    /\ (argc < 2 \/ ~exists) => (pc \in {"main", "exited"} /\ data = NoData)
    /\ ReportPrinted => (argc >= 2 /\ exists /\ readable)
    /\ (pc = "exited" /\ argc >= 2 /\ exists /\ readable) => exitStatus = 0

====
